---------------------------- MODULE Spec2Model ----------------------------
(***************************************************************************)
(* A model of bench/utils.py: the `bench update` orchestration (update()   *)
(* and the helpers it calls) as a sequential state machine, one action per *)
(* statement group of update(), and the pure helpers as operators.         *)
(*                                                                         *)
(* Conventions.  A configuration document is a function from key names to  *)
(* 0/1; a key that is missing reads as 0 (dict.get() gives None).  A site  *)
(* or an app is its position in the installation's listing.  An entry of   *)
(* `calls` is <<name, argument>>, the argument a sequence of positions.    *)
(* How a run ends is `outcome`: "returned", or the exception that leaves   *)
(* update() ("SystemExit", "Abort", "PatchError", "Exception").            *)
(*                                                                         *)
(* Functions update() imports from other modules (validate_branch,         *)
(* is_version_upgrade, pull_apps, install_app, the config generators) are  *)
(* calls whose result is chosen from the results they can give: a value,   *)
(* or an exception.  A child process gives any return code of RetCodes.    *)
(* The shallow_clone warning of update() (a message and a sleep) and its   *)
(* print statements change no state and have no action.                    *)
(***************************************************************************)
EXTENDS Integers, Sequences, FiniteSets, TLC

\* ------------------------------------------------------------------ bounds

\* Number of sites hosted by the installation (Bench.sites).
MaxSites == 2

\* Number of apps installed in the installation (Bench.apps); app 1 is frappe.
MaxApps == 2

\* Largest major version number enumerated for validate_upgrade.
MaxVer == 8

\* The highest major version of frappe the backend choice is checked on.
MaxMajor == 13

Sites == 1..MaxSites

Apps == 1..MaxApps

\* -------------------------------------------------------- input domains

\* Return codes of a child process as subprocess reports them: 0, a positive
\* exit status, or the negated signal number when a signal killed the child.
RetCodes == {-9, 0, 1}

\* The keys of common_site_config.json that update() reads or writes.
ConfKeys == {"release_bench", "maintenance_mode", "pause_scheduler",
             "restart_supervisor_on_update"}

\* The persisted configuration documents enumerated: the two maintenance
\* flags, which update() only ever writes together, start equal.
ConfDocs == {d \in [ConfKeys -> {0, 1}] : d["maintenance_mode"] = d["pause_scheduler"]}

\* dict.get(key): the value, or None (falsy, read as 0) for a missing key.
Get(d, k) == IF k \in DOMAIN d THEN d[k] ELSE 0

\* The executables validate_upgrade looks up with which().
Tools == {"npm", "node", "nodejs"}

Hosts == SUBSET Tools

\* The values of the --apps option enumerated, a string being a sequence of
\* one-character strings: not passed, or "a, b".
AppsArgs == {<<>>, <<"a", ",", " ", "b">>}

\* The options that do not select a stage, enumerated together.
AuxArgs == {[compile |-> TRUE, restart_supervisor |-> FALSE, restart_systemd |-> FALSE],
            [compile |-> FALSE, restart_supervisor |-> TRUE, restart_systemd |-> TRUE]}

StageArgs == [pull : BOOLEAN, patch : BOOLEAN, build : BOOLEAN,
              requirements : BOOLEAN, backup : BOOLEAN, force : BOOLEAN,
              apps : AppsArgs]

\* The argument lists of update() enumerated.
ArgSets == {[pull |-> f.pull, patch |-> f.patch, build |-> f.build,
             requirements |-> f.requirements, backup |-> f.backup,
             force |-> f.force, apps |-> f.apps, compile |-> x.compile,
             restart_supervisor |-> x.restart_supervisor,
             restart_systemd |-> x.restart_systemd] : f \in StageArgs, x \in AuxArgs}

\* update()'s defaults (the signature), the value of `args` before the call.
DefaultArgs == [pull |-> FALSE, patch |-> FALSE, build |-> FALSE,
                requirements |-> FALSE, backup |-> TRUE, force |-> FALSE,
                apps |-> <<>>, compile |-> TRUE, restart_supervisor |-> FALSE,
                restart_systemd |-> FALSE]

\* The results of is_version_upgrade() enumerated: <<is_major, from, to>>.
VersionUpgrades == {<<FALSE, 5, 5>>, <<FALSE, 6, 6>>, <<TRUE, 4, 5>>, <<TRUE, 5, 6>>}

NoUpgrade == <<FALSE, 0, 0>>

\* ------------------------------------------------------------------ state

VARIABLES
    conf_file,        \* sites/common_site_config.json, the persisted document
    cache_file,       \* whether .bench.cmd exists
    pc,               \* the statement of update() that runs next
    args,             \* update()'s arguments as passed
    pull, patch, build, requirements,   \* update()'s locals of these names
    apps,             \* update()'s local `apps`
    conf,             \* update()'s local `conf` (bench.conf, in memory)
    version_upgrade,  \* update()'s local `version_upgrade`
    site_i,           \* position of the `for site in ...` loop that runs
    app_i,            \* position of the `for app in ...` loop that runs
    return_code,      \* return code of the child process that ran last
    calls,            \* the operations invoked so far, in order
    outcome,          \* "running", or how update() ended
    exit_code,        \* the process exit status once update() has ended
    failed_at,        \* the statement that ended the run by a failure
    conf0,            \* the persisted document when update() was called
    host,             \* validate_upgrade check: the executables on the host
    to_ver,           \* validate_upgrade check: its to_ver argument
    result,           \* validate_upgrade check: "", "return" or "raise"
    pm_found,         \* whether the host has the executable that the node
                      \* backend of this run needs: "unknown" until it looks
    fn_in,            \* function checks: the arguments of the call
    fn_out            \* function checks: "" or what the call produced

vars == <<conf_file, cache_file, pc, args, pull, patch, build, requirements,
          apps, conf, version_upgrade, site_i, app_i, return_code, calls,
          outcome, exit_code, failed_at, conf0, host, to_ver, result,
          pm_found, fn_in, fn_out>>

\* The variables of the function checks, untouched by update().
fnvars == <<host, to_ver, result, fn_in, fn_out>>

\* The variables of a run of update().
runvars == <<conf_file, cache_file, pc, args, pull, patch, build, requirements,
             apps, conf, version_upgrade, site_i, app_i, return_code, calls,
             outcome, exit_code, failed_at, conf0, pm_found>>

locals == <<args, pull, patch, build, requirements, apps, conf, version_upgrade>>

files == <<conf_file, cache_file>>

history == <<conf0, pm_found>>

Init ==
    /\ conf_file \in ConfDocs
    /\ cache_file \in BOOLEAN
    /\ pc = "idle"
    /\ args = DefaultArgs
    /\ pull = FALSE /\ patch = FALSE /\ build = FALSE /\ requirements = FALSE
    /\ apps = <<>>
    /\ conf = conf_file
    /\ version_upgrade = NoUpgrade
    /\ site_i = 1
    /\ app_i = 1
    /\ return_code = 0
    /\ calls = <<>>
    /\ outcome = "running"
    /\ exit_code = 0
    /\ failed_at = ""
    /\ conf0 = conf_file
    /\ host = {}
    /\ to_ver = 0
    /\ result = ""
    /\ pm_found = "unknown"
    /\ fn_in = ""
    /\ fn_out = ""

\* ---------------------------------------------------------------- helpers

Call(name, arg) == calls' = Append(calls, <<name, arg>>)

\* The next statement runs.
Goto(label) ==
    /\ pc' = label
    /\ UNCHANGED <<outcome, exit_code, failed_at>>

\* An exception leaves update() from the statement that runs: nothing after
\* it in update() is executed (update() has no try/finally).
Raise(kind, code) ==
    /\ pc' = "done"
    /\ outcome' = kind
    /\ exit_code' = code
    /\ failed_at' = pc

update_json_file_replace(content, ddict) == ddict

\* update_json_file: content.update(ddict), then the document is written.
update_json_file(content, ddict) ==
    [k \in DOMAIN content \cup DOMAIN ddict |->
        IF k \in DOMAIN ddict THEN ddict[k] ELSE content[k]]

\* bench.config.common_site_config.update_config: merge into the persisted document.
update_config(content, new_config) == update_json_file(content, new_config)

\* conf.update({...}) of a dict held in memory.
dict_update(d, e) == [k \in DOMAIN d \cup DOMAIN e |-> IF k \in DOMAIN e THEN e[k] ELSE d[k]]

\* Mutant: the entry write forgets pause_scheduler.
maintenance_on_only_mode == [k \in {"maintenance_mode"} |-> 1]

\* The flags update() sets on entering the maintenance window.
maintenance_on == [k \in {"maintenance_mode", "pause_scheduler"} |-> 1]

\* Mutant: the exit write forgets pause_scheduler.
maintenance_off_only_mode == [k \in {"maintenance_mode"} |-> 0]

\* The flags update() sets on leaving the maintenance window.
maintenance_off == [k \in {"maintenance_mode", "pause_scheduler"} |-> 0]

\* validate_upgrade: "raise" when it raises, "return" when it returns.
validate_upgrade(to, h) ==
    IF to >= 6 /\ ("npm" \notin h /\ ~("node" \in h \/ "nodejs" \in h))
    THEN "raise" ELSE "return"

\* Mutant: the force flag alone no longer triggers the validation.
upgrade_only == version_upgrade[1]

\* The condition under which update() validates and post-processes an upgrade.
upgrade_or_force == version_upgrade[1] \/ (~version_upgrade[1] /\ args.force)

\* Mutant: the operator is asked even when the force flag was passed.
needs_confirmation_forced_too == version_upgrade[1]

\* The condition under which update() asks the operator to confirm.
needs_confirmation == version_upgrade[1] /\ ~args.force

\* Mutant: the default test forgets the requirements flag.
no_stage_selected_but_requirements == ~(pull \/ patch \/ build)

\* The condition under which update() turns all four stages on.
no_stage_selected == ~(pull \/ patch \/ build \/ requirements)

\* Mutant: the sites are migrated before the dependencies are reconciled.
StageOrderPatchFirst == <<"enter_maintenance", "backup_all_sites", "pull_apps",
                          "patch_sites", "update_requirements", "build_assets",
                          "post_upgrade", "compile", "restart_supervisor_processes",
                          "restart_systemd_processes", "exit_maintenance">>

\* The statements of update() from the maintenance-entry write to the
\* maintenance-exit write, in the order update() has them.
StageOrder == <<"enter_maintenance", "backup_all_sites", "pull_apps",
                "update_requirements", "patch_sites", "build_assets",
                "post_upgrade", "compile", "restart_supervisor_processes",
                "restart_systemd_processes", "exit_maintenance">>

\* The statement of update() that follows statement s.
stage_after(s) ==
    StageOrder[(CHOOSE i \in 1..Len(StageOrder) : StageOrder[i] = s) + 1]

exec_cmd_check_call(rcode) == IF rcode # 0 THEN "CalledProcessError" ELSE "return"

\* exec_cmd after the child has returned: it logs a warning for a non-zero
\* return code and returns to its caller in every case.
exec_cmd(rcode) == "return"

\* run_frappe_cmd after the child has returned: sys.exit(return_code) or return.
run_frappe_cmd(rcode) == IF rcode > 0 THEN "SystemExit" ELSE "return"

\* patch_sites' handler: CalledProcessError becomes PatchError, the rest propagates.
patch_sites_except(exc) == IF exc = "CalledProcessError" THEN "PatchError" ELSE exc

\* ---------------------------------------------------------------- actions

\* update() is called: Bench(bench_path), conf = bench.conf, and the --apps
\* option is dropped when --pull was not passed.
update ==
    /\ pc = "idle"
    /\ \E a \in ArgSets :
        /\ args' = a
        /\ pull' = a.pull /\ patch' = a.patch /\ build' = a.build
        /\ requirements' = a.requirements
        /\ apps' = IF a.apps # <<>> /\ ~a.pull THEN <<>> ELSE a.apps
    /\ conf' = conf_file
    /\ Goto("clear_command_cache")
    /\ UNCHANGED <<files, version_upgrade, site_i, app_i, return_code, calls,
                   history, fnvars>>

\* clear_command_cache(): os.remove(.bench.cmd) when it exists.
clear_command_cache ==
    /\ pc = "clear_command_cache"
    /\ cache_file' = FALSE
    /\ Goto("release_bench")
    /\ UNCHANGED <<conf_file, locals, site_i, app_i, return_code, calls, history, fnvars>>

\* if conf.get('release_bench'): sys.exit(1)
release_bench ==
    /\ pc = "release_bench"
    /\ IF Get(conf, "release_bench") # 0
       THEN Raise("SystemExit", 1)
       ELSE Goto("default_stages")
    /\ UNCHANGED <<files, locals, site_i, app_i, return_code, calls, history, fnvars>>

\* if not (pull or patch or build or requirements): all four become True.
default_stages ==
    /\ pc = "default_stages"
    /\ IF no_stage_selected
       THEN pull' = TRUE /\ patch' = TRUE /\ build' = TRUE /\ requirements' = TRUE
       ELSE UNCHANGED <<pull, patch, build, requirements>>
    /\ Goto("validate_branch")
    /\ UNCHANGED <<files, args, apps, conf, version_upgrade, site_i, app_i,
                   return_code, calls, history, fnvars>>

validate_branch_skipped ==
    /\ pc = "validate_branch"
    /\ Goto("is_version_upgrade")
    /\ UNCHANGED <<files, locals, site_i, app_i, return_code, calls, history, fnvars>>

\* validate_branch(): returns, or ends the run when the branch is not permitted.
validate_branch ==
    /\ pc = "validate_branch"
    /\ Call("validate_branch", <<>>)
    /\ \/ Goto("is_version_upgrade")
       \/ Raise("SystemExit", 1)
    /\ UNCHANGED <<files, locals, site_i, app_i, return_code, history, fnvars>>

\* version_upgrade = is_version_upgrade()
is_version_upgrade ==
    /\ pc = "is_version_upgrade"
    /\ \E v \in VersionUpgrades : version_upgrade' = v
    /\ Goto("confirm")
    /\ UNCHANGED <<files, args, pull, patch, build, requirements, apps, conf,
                   site_i, app_i, return_code, calls, history, fnvars>>

\* if version_upgrade[0]: a warning when forced, else click.confirm(abort=True),
\* which raises Abort when the operator declines.
confirm ==
    /\ pc = "confirm"
    /\ IF needs_confirmation
       THEN /\ Call("click.confirm", <<>>)
            /\ \/ Goto("validate_upgrade")
               \/ Raise("Abort", 1)
       ELSE /\ UNCHANGED calls
            /\ Goto("validate_upgrade")
    /\ UNCHANGED <<files, locals, site_i, app_i, return_code, history, fnvars>>

\* if version_upgrade[0] or (not version_upgrade[0] and force): validate_upgrade(...)
validate_upgrade_step ==
    /\ pc = "validate_upgrade"
    /\ IF upgrade_or_force
       THEN /\ Call("validate_upgrade", <<>>)
            /\ \E h \in Hosts :
                IF validate_upgrade(version_upgrade[3], h) = "raise"
                THEN Raise("Exception", 1)
                ELSE Goto("enter_maintenance")
       ELSE /\ UNCHANGED calls
            /\ Goto("enter_maintenance")
    /\ UNCHANGED <<files, locals, site_i, app_i, return_code, history, fnvars>>

\* conf.update({maintenance_mode: 1, pause_scheduler: 1}); update_config(conf)
enter_maintenance ==
    /\ pc = "enter_maintenance"
    /\ conf' = dict_update(conf, maintenance_on)
    /\ conf_file' = update_config(conf_file, conf')
    /\ Call("update_config", <<1>>)
    /\ site_i' = 1
    /\ Goto(stage_after("enter_maintenance"))
    /\ UNCHANGED <<cache_file, args, pull, patch, build, requirements, apps,
                   version_upgrade, app_i, return_code, history, fnvars>>

\* if backup: backup_all_sites(): for site in sites: backup_site(site), which
\* is run_frappe_cmd('--site', site, 'backup').
backup_all_sites ==
    /\ pc = "backup_all_sites"
    /\ IF args.backup /\ site_i <= MaxSites
       THEN /\ Call("backup_site", <<site_i>>)
            /\ \E r \in RetCodes :
                /\ return_code' = r
                /\ IF run_frappe_cmd(r) = "return"
                   THEN site_i' = site_i + 1 /\ Goto("backup_all_sites")
                   ELSE UNCHANGED site_i /\ Raise(run_frappe_cmd(r), r)
       ELSE /\ Goto(stage_after("backup_all_sites"))
            /\ site_i' = 1
            /\ UNCHANGED <<calls, return_code>>
    /\ UNCHANGED <<files, locals, app_i, history, fnvars>>

\* re.split(",| ", apps): the pieces between the commas and spaces.
RECURSIVE re_split(_)
re_split(s) ==
    IF s = <<>> THEN <<<<>>>>
    ELSE LET r == re_split(Tail(s))
         IN  IF Head(s) \in {",", " "}
             THEN <<<<>>>> \o r
             ELSE <<<<Head(s)>> \o Head(r)>> \o Tail(r)

Whitespace == {" ", "\t", "\n"}

\* app.strip()
RECURSIVE strip(_)
strip(x) ==
    IF x # <<>> /\ Head(x) \in Whitespace THEN strip(Tail(x))
    ELSE IF x # <<>> /\ x[Len(x)] \in Whitespace THEN strip(SubSeq(x, 1, Len(x) - 1))
    ELSE x

\* [app.strip() for app in re.split(",| ", apps) if app]
app_list(s) ==
    LET items == SelectSeq(re_split(s), LAMBDA x : x # <<>>)
    IN  [i \in 1..Len(items) |-> strip(items[i])]

\* if apps: apps = [...]; if pull: pull_apps(apps=apps, ...), which returns or
\* raises.
pull_apps ==
    /\ pc = "pull_apps"
    /\ apps' = IF apps # <<>> THEN app_list(apps) ELSE apps
    /\ IF pull
       THEN /\ Call("pull_apps", apps')
            /\ \/ Goto(stage_after("pull_apps"))
               \/ Raise("Exception", 1)
       ELSE /\ UNCHANGED calls
            /\ Goto(stage_after("pull_apps"))
    /\ UNCHANGED <<files, args, pull, patch, build, requirements, conf,
                   version_upgrade, site_i, app_i, return_code, history, fnvars>>

\* if requirements: update_requirements() begins: update_env_pip() runs pip
\* through exec_cmd, which returns whatever the return code.
update_requirements ==
    /\ pc = "update_requirements"
    /\ IF requirements
       THEN /\ Call("update_env_pip", <<>>)
            /\ \E r \in RetCodes :
                /\ return_code' = r
                /\ IF exec_cmd(r) = "return"
                   THEN Goto("install_app")
                   ELSE Raise(exec_cmd(r), 1)
            /\ app_i' = 1
       ELSE /\ UNCHANGED <<calls, return_code, app_i>>
            /\ Goto(stage_after("update_requirements"))
    /\ UNCHANGED <<files, locals, site_i, history, fnvars>>

\* update_requirements(): for app in Bench.apps: install_app(app), which
\* returns or raises.
install_app ==
    /\ pc = "install_app"
    /\ IF app_i <= MaxApps
       THEN /\ Call("install_app", <<app_i>>)
            /\ \/ app_i' = app_i + 1 /\ Goto("install_app")
               \/ UNCHANGED app_i /\ Raise("Exception", 1)
       ELSE /\ UNCHANGED calls
            /\ app_i' = 1
            /\ Goto("update_node_packages")
    /\ UNCHANGED <<files, locals, site_i, return_code, history, fnvars>>

\* ------------------------------------------- distutils LooseVersion
\* A version string is a sequence of one-character strings.

DigitChars == <<"0", "1", "2", "3", "4", "5", "6", "7", "8", "9">>

LowerChars == <<"a", "b", "c", "d", "e", "f", "g", "h", "i", "j", "k", "l", "m",
                "n", "o", "p", "q", "r", "s", "t", "u", "v", "w", "x", "y", "z">>

IsDigit(c) == \E i \in 1..Len(DigitChars) : DigitChars[i] = c

IsLower(c) == \E i \in 1..Len(LowerChars) : LowerChars[i] = c

DigitVal(c) == (CHOOSE i \in 1..Len(DigitChars) : DigitChars[i] = c) - 1

\* ord(c), for the characters a version string is made of here.
Ord(c) ==
    IF IsDigit(c) THEN 48 + DigitVal(c)
    ELSE IF IsLower(c) THEN 96 + (CHOOSE i \in 1..Len(LowerChars) : LowerChars[i] = c)
    ELSE IF c = "." THEN 46 ELSE 45

\* component_re = (\d+ | [a-z]+ | \.): the alternative a character matches,
\* "other" when it matches none.
CharClass(c) ==
    IF IsDigit(c) THEN "digits"
    ELSE IF IsLower(c) THEN "lower"
    ELSE IF c = "." THEN "dot" ELSE "other"

\* component_re.split(vstring): the maximal runs of digits, of lower-case
\* letters and of other characters, and every dot on its own.
RECURSIVE component_split(_)
component_split(s) ==
    IF s = <<>> THEN <<>>
    ELSE LET c == Head(s)
             r == component_split(Tail(s))
         IN  IF r # <<>> /\ CharClass(c) # "dot" /\ CharClass(Head(r)[1]) = CharClass(c)
             THEN <<<<c>> \o Head(r)>> \o Tail(r)
             ELSE <<<<c>>>> \o r

\* int(x) of a run of digits.
RECURSIVE int_of(_)
int_of(run) ==
    IF run = <<>> THEN 0
    ELSE 10 * int_of(SubSeq(run, 1, Len(run) - 1)) + DigitVal(run[Len(run)])

\* One component: an int when the run is digits, else the run as a string.
Component(run) ==
    IF IsDigit(run[1])
    THEN [int |-> TRUE, n |-> int_of(run), str |-> <<>>]
    ELSE [int |-> FALSE, n |-> 0, str |-> run]

\* LooseVersion.parse: [x for x in split if x and x != '.'], ints converted.
LooseVersion(vstring) ==
    LET runs == SelectSeq(component_split(vstring), LAMBDA r : r # <<".">>)
    IN  [i \in 1..Len(runs) |-> Component(runs[i])]

\* The first position where two sequences differ, 0 when one is a prefix of
\* the other.
FirstDiff(a, b) ==
    LET m == IF Len(a) < Len(b) THEN Len(a) ELSE Len(b)
        D == {i \in 1..m : a[i] # b[i]}
    IN  IF D = {} THEN 0 ELSE CHOOSE i \in D : \A j \in D : i <= j

\* str < str
StrLess(a, b) ==
    LET i == FirstDiff(a, b)
    IN  IF i = 0 THEN Len(a) < Len(b) ELSE Ord(a[i]) < Ord(b[i])

\* LooseVersion.__lt__: self.version < other.version on the component lists.
\* Python 3 orders two lists by their first differing elements, and raises
\* TypeError when one of these is an int and the other a str.
LooseLess(a, b) ==
    LET i == FirstDiff(a, b)
    IN  IF i = 0 THEN (IF Len(a) < Len(b) THEN "True" ELSE "False")
        ELSE IF a[i].int # b[i].int THEN "TypeError"
        ELSE IF a[i].int THEN (IF a[i].n < b[i].n THEN "True" ELSE "False")
        ELSE IF StrLess(a[i].str, b[i].str) THEN "True" ELSE "False"

Develop == <<"-", "d", "e", "v", "e", "l", "o", "p">>

\* '11.x.x-develop'
Baseline == <<"1", "1", ".", "x", ".", "x">> \o Develop

\* update_node_packages: the backend it calls for the develop version of
\* frappe, or the exception the comparison raises.
node_backend(version) ==
    LET lt == LooseLess(LooseVersion(version), LooseVersion(Baseline))
    IN  IF lt = "TypeError" THEN "TypeError"
        ELSE IF lt = "True" THEN "update_npm_packages" ELSE "update_yarn_packages"

\* The develop versions get_develop_version('frappe') returns in a run of
\* update(): '10.x.x-develop', '11.0.0-develop', '12.x.x-develop'.
DevelopVersions ==
    { <<"1", "0", ".", "x", ".", "x">> \o Develop,
      <<"1", "1", ".", "0", ".", "0">> \o Develop,
      <<"1", "2", ".", "x", ".", "x">> \o Develop }

\* update_yarn_packages: exec_cmd('yarn install', cwd=app_path) for every app
\* with a package.json.
YarnInstalls == [i \in 1..MaxApps |-> <<"yarn install", <<i>>>>]

\* update_node_packages(): picks the backend by the develop version of frappe.
\* update_npm_packages writes the combined package.json and runs
\* exec_cmd('npm install'), whose subprocess.call raises FileNotFoundError
\* when there is no npm executable; update_yarn_packages prints and returns
\* when which('yarn') finds nothing, else runs 'yarn install' per app.
update_node_packages ==
    /\ pc = "update_node_packages"
    /\ \E v \in DevelopVersions, f \in {"found", "missing"} :
         LET b == node_backend(v)
             entered == calls \o <<<<"update_node_packages", <<>>>>>>
         IN  IF b = "TypeError"
             THEN /\ calls' = entered
                  /\ Raise("TypeError", 1)
                  /\ UNCHANGED <<return_code, pm_found>>
             ELSE /\ pm_found' = f
                  /\ IF b = "update_npm_packages"
                     THEN IF f = "found"
                          THEN /\ calls' = entered \o <<<<b, <<>>>>, <<"npm install", <<>>>>>>
                               /\ \E r \in RetCodes :
                                   /\ return_code' = r
                                   /\ IF exec_cmd(r) = "return"
                                      THEN Goto(stage_after("update_requirements"))
                                      ELSE Raise(exec_cmd(r), 1)
                          ELSE /\ calls' = entered \o <<<<b, <<>>>>>>
                               /\ Raise("FileNotFoundError", 1)
                               /\ UNCHANGED return_code
                     ELSE IF f = "found"
                          THEN /\ calls' = entered \o <<<<b, <<>>>>>> \o YarnInstalls
                               /\ \E r \in RetCodes :
                                   /\ return_code' = r
                                   /\ IF exec_cmd(r) = "return"
                                      THEN Goto(stage_after("update_requirements"))
                                      ELSE Raise(exec_cmd(r), 1)
                          ELSE /\ calls' = entered \o <<<<b, <<>>>>, <<"print", <<>>>>>>
                               /\ Goto(stage_after("update_requirements"))
                               /\ UNCHANGED return_code
    /\ UNCHANGED <<files, locals, site_i, app_i, conf0, fnvars>>

\* if patch: patch_sites(): for site in bench.sites: migrate_site(site), which
\* is run_frappe_cmd('--site', site, 'migrate'), inside try/except.
patch_sites ==
    /\ pc = "patch_sites"
    /\ IF patch /\ site_i <= MaxSites
       THEN /\ Call("migrate_site", <<site_i>>)
            /\ \E r \in RetCodes :
                /\ return_code' = r
                /\ IF run_frappe_cmd(r) = "return"
                   THEN site_i' = site_i + 1 /\ Goto("patch_sites")
                   ELSE UNCHANGED site_i
                        /\ Raise(patch_sites_except(run_frappe_cmd(r)), r)
       ELSE /\ Goto(stage_after("patch_sites"))
            /\ site_i' = 1
            /\ UNCHANGED <<calls, return_code>>
    /\ UNCHANGED <<files, locals, app_i, history, fnvars>>

\* if build: build_assets(): `bench build` through exec_cmd.
build_assets ==
    /\ pc = "build_assets"
    /\ IF build
       THEN /\ Call("build_assets", <<>>)
            /\ \E r \in RetCodes :
                /\ return_code' = r
                /\ IF exec_cmd(r) = "return"
                   THEN Goto(stage_after("build_assets"))
                   ELSE Raise(exec_cmd(r), 1)
       ELSE /\ UNCHANGED <<calls, return_code>>
            /\ Goto(stage_after("build_assets"))
    /\ UNCHANGED <<files, locals, site_i, app_i, history, fnvars>>

regenerates_config_always(d) == TRUE

\* post_upgrade(): if conf.get('restart_supervisor_on_update'), on the
\* configuration it reads from the installation.
regenerates_config(d) == Get(d, "restart_supervisor_on_update") # 0

\* if version_upgrade[0] or (not version_upgrade[0] and force): post_upgrade(),
\* which regenerates the redis, supervisor and nginx configuration when
\* restart_supervisor_on_update is set in the configuration it reads.
post_upgrade ==
    /\ pc = "post_upgrade"
    /\ IF upgrade_or_force
       THEN IF regenerates_config(conf_file)
            THEN /\ calls' = calls \o <<<<"post_upgrade", <<>>>>, <<"generate_config", <<>>>>>>
                 /\ \/ Goto(stage_after("post_upgrade"))
                    \/ Raise("Exception", 1)
            ELSE /\ Call("post_upgrade", <<>>)
                 /\ Goto(stage_after("post_upgrade"))
       ELSE /\ UNCHANGED calls
            /\ Goto(stage_after("post_upgrade"))
    /\ UNCHANGED <<files, locals, site_i, app_i, return_code, history, fnvars>>

\* if pull and compile: compile_dir(apps_dir)
compile ==
    /\ pc = "compile"
    /\ IF pull /\ args.compile
       THEN Call("compile_dir", <<>>)
       ELSE UNCHANGED calls
    /\ Goto(stage_after("compile"))
    /\ UNCHANGED <<files, locals, site_i, app_i, return_code, history, fnvars>>

\* if restart_supervisor or conf.get('restart_supervisor_on_update'):
\* restart_supervisor_processes(), which returns or raises.
restart_supervisor_processes ==
    /\ pc = "restart_supervisor_processes"
    /\ IF args.restart_supervisor \/ Get(conf, "restart_supervisor_on_update") # 0
       THEN /\ Call("restart_supervisor_processes", <<>>)
            /\ \/ Goto(stage_after("restart_supervisor_processes"))
               \/ Raise("Exception", 1)
       ELSE /\ UNCHANGED calls
            /\ Goto(stage_after("restart_supervisor_processes"))
    /\ UNCHANGED <<files, locals, site_i, app_i, return_code, history, fnvars>>

\* if restart_systemd or conf.get('restart_systemd_on_update'):
\* restart_systemd_processes(): two systemctl commands through exec_cmd.
restart_systemd_processes ==
    /\ pc = "restart_systemd_processes"
    /\ IF args.restart_systemd \/ Get(conf, "restart_systemd_on_update") # 0
       THEN /\ Call("restart_systemd_processes", <<>>)
            /\ \E r \in RetCodes :
                /\ return_code' = r
                /\ IF exec_cmd(r) = "return"
                   THEN Goto(stage_after("restart_systemd_processes"))
                   ELSE Raise(exec_cmd(r), 1)
       ELSE /\ UNCHANGED <<calls, return_code>>
            /\ Goto(stage_after("restart_systemd_processes"))
    /\ UNCHANGED <<files, locals, site_i, app_i, history, fnvars>>

\* conf.update({maintenance_mode: 0, pause_scheduler: 0}); update_config(conf);
\* update() returns.
exit_maintenance ==
    /\ pc = "exit_maintenance"
    /\ conf' = dict_update(conf, maintenance_off)
    /\ conf_file' = update_config(conf_file, conf')
    /\ Call("update_config", <<0>>)
    /\ pc' = "done"
    /\ outcome' = "returned"
    /\ exit_code' = 0
    /\ UNCHANGED <<cache_file, args, pull, patch, build, requirements, apps,
                   version_upgrade, site_i, app_i, return_code, failed_at,
                   history, fnvars>>

Next ==
    \/ update
    \/ clear_command_cache
    \/ release_bench
    \/ default_stages
    \/ validate_branch
    \/ is_version_upgrade
    \/ confirm
    \/ validate_upgrade_step
    \/ enter_maintenance
    \/ backup_all_sites
    \/ pull_apps
    \/ update_requirements
    \/ install_app
    \/ update_node_packages
    \/ patch_sites
    \/ build_assets
    \/ post_upgrade
    \/ compile
    \/ restart_supervisor_processes
    \/ restart_systemd_processes
    \/ exit_maintenance

Spec == Init /\ [][Next]_vars

\* ------------------------------------------- validate_upgrade on its own

\* Every to_ver and every set of executables present, with update() not called.
InitValidate ==
    /\ conf_file = [k \in ConfKeys |-> 0]
    /\ cache_file = FALSE
    /\ pc = "idle"
    /\ args = DefaultArgs
    /\ pull = FALSE /\ patch = FALSE /\ build = FALSE /\ requirements = FALSE
    /\ apps = <<>>
    /\ conf = conf_file
    /\ version_upgrade = NoUpgrade
    /\ site_i = 1
    /\ app_i = 1
    /\ return_code = 0
    /\ calls = <<>>
    /\ outcome = "running"
    /\ exit_code = 0
    /\ failed_at = ""
    /\ conf0 = conf_file
    /\ host \in Hosts
    /\ to_ver \in 0..MaxVer
    /\ result = ""
    /\ pm_found = "unknown"
    /\ fn_in = ""
    /\ fn_out = ""

\* validate_upgrade(from_ver, to_ver) is called on the host.
validate_upgrade_call ==
    /\ result = ""
    /\ result' = validate_upgrade(to_ver, host)
    /\ UNCHANGED <<runvars, host, to_ver, fn_in, fn_out>>

NextValidate == validate_upgrade_call

SpecValidate == InitValidate /\ [][NextValidate]_vars

\* ------------------------------------------ checks of single functions

\* No run of update() is in progress and none starts.
IdleRun ==
    /\ conf_file = [k \in ConfKeys |-> 0]
    /\ cache_file = FALSE
    /\ pc = "idle"
    /\ args = DefaultArgs
    /\ pull = FALSE /\ patch = FALSE /\ build = FALSE /\ requirements = FALSE
    /\ apps = <<>>
    /\ conf = conf_file
    /\ version_upgrade = NoUpgrade
    /\ site_i = 1
    /\ app_i = 1
    /\ return_code = 0
    /\ calls = <<>>
    /\ outcome = "running"
    /\ exit_code = 0
    /\ failed_at = ""
    /\ conf0 = conf_file
    /\ pm_found = "unknown"
    /\ host = {}
    /\ to_ver = 0
    /\ result = ""

\* str(n) for 0 <= n < 100
str_of(n) ==
    IF n < 10 THEN <<DigitChars[n + 1]>>
    ELSE <<DigitChars[(n \div 10) + 1], DigitChars[(n % 10) + 1]>>

\* The develop versions of frappe the backend choice is checked on:
\* major.minor.patch with an optional -develop, minor and patch a number or x.
VersionStrings ==
    { str_of(major) \o <<".">> \o minorlevel \o <<".">> \o patchlevel \o suffix :
        major \in 9..MaxMajor,
        minorlevel \in {<<"0">>, <<"9">>, <<"x">>},
        patchlevel \in {<<"0">>, <<"x">>},
        suffix \in {<<>>, Develop} }

InitNode ==
    /\ IdleRun
    /\ fn_in \in VersionStrings
    /\ fn_out = ""

\* update_node_packages() is called with frappe at develop version fn_in.
update_node_packages_call ==
    /\ fn_out = ""
    /\ fn_out' = node_backend(fn_in)
    /\ UNCHANGED <<runvars, host, to_ver, result, fn_in>>

NextNode == update_node_packages_call

SpecNode == InitNode /\ [][NextNode]_vars

\* ------------------------------------- update_npm_packages: package.json
\* A JSON value is a record: t its type, d the items of a dict as a set of
\* <<key, value>> pairs, l a list, s a scalar.  A manifest maps every key of
\* ManifestKeys to a value, of type "absent" when the key is not in it.

ManifestKeys == {"dependencies", "scripts"}

Absent == [t |-> "absent", d |-> {}, l |-> <<>>, s |-> 0]

Dict(items) == [t |-> "dict", d |-> items, l |-> <<>>, s |-> 0]

List(elems) == [t |-> "list", d |-> {}, l |-> elems, s |-> 0]

Scalar(x) == [t |-> "scalar", d |-> {}, l |-> <<>>, s |-> x]

JsonValues ==
    { Dict({<<"a", 1>>}), Dict({<<"a", 2>>}), Dict({<<"b", 2>>}),
      List(<<"build">>), List(<<"test">>), Scalar(1), Scalar(2) }

\* The package.json files of the apps; an app without one adds nothing, as
\* one whose package.json is {}.
Manifests == [ManifestKeys -> JsonValues \cup {Absent}]

EmptyManifest == [k \in ManifestKeys |-> Absent]

\* a.update(b) on the items of two dicts
items_update(a, b) == {p \in a : ~\E q \in b : q[1] = p[1]} \cup b

\* package_json[key].update(value) and package_json[key].extend(value) need
\* the value already there to be a dict, respectively a list: anything else
\* has no such method (AttributeError).
raises_AttributeError(cur, value) ==
    \/ value.t = "dict" /\ cur.t # "dict"
    \/ value.t = "list" /\ cur.t # "list"

merge_value_overwrite(cur, value) == value

\* The else branch of `if not key in package_json`, by the type of the value
\* that comes later.
merge_value(cur, value) ==
    IF value.t = "dict" THEN Dict(items_update(cur.d, value.d))
    ELSE IF value.t = "list" THEN List(cur.l \o value.l)
    ELSE value

\* for key, value in app_package_json.items(): ...
merge_manifest(package_json, app_package_json) ==
    IF package_json.error
          \/ \E k \in ManifestKeys :
                /\ app_package_json[k].t # "absent"
                /\ package_json.doc[k].t # "absent"
                /\ raises_AttributeError(package_json.doc[k], app_package_json[k])
    THEN [error |-> TRUE, doc |-> EmptyManifest]
    ELSE [error |-> FALSE,
          doc |-> [k \in ManifestKeys |->
                     IF app_package_json[k].t = "absent" THEN package_json.doc[k]
                     ELSE IF package_json.doc[k].t = "absent" THEN app_package_json[k]
                     ELSE merge_value(package_json.doc[k], app_package_json[k])]]

\* package_json = {}; for app in os.listdir(apps_dir): ...
RECURSIVE combined_manifest(_)
combined_manifest(listing) ==
    IF listing = <<>> THEN [error |-> FALSE, doc |-> EmptyManifest]
    ELSE merge_manifest(combined_manifest(SubSeq(listing, 1, Len(listing) - 1)),
                        listing[Len(listing)])

\* The dict object package_json is bound to from line 600 on (the loop
\* changes the object, never the binding), and the one the literal {} of line
\* 618 creates when it is evaluated.
PackageJsonObject == "dict created at line 600"

DictLiteralObject == "dict created at line 618"

\* a is b: the two are the same object.
python_is(a, b) == a = b

\* The package.json shipped with the tool, next to utils.py.
BundledDefault ==
    [k \in ManifestKeys |-> IF k = "dependencies" THEN Dict({<<"a", 1>>, <<"b", 2>>})
                            ELSE Absent]

\* lines 618-623: if package_json is {}: package_json = <the bundled file>;
\* then package_json is written to the installation root.
written_manifest(package_json) ==
    IF python_is(PackageJsonObject, DictLiteralObject) THEN BundledDefault
    ELSE package_json

InitMerge ==
    /\ IdleRun
    /\ fn_in \in [1..MaxApps -> Manifests]
    /\ fn_out = ""

\* update_npm_packages() combines the manifests of the listed apps: result
\* tells how the loop ended, fn_out is the package.json it writes.
update_npm_packages_call ==
    /\ result = ""
    /\ LET c == combined_manifest(fn_in)
       IN  /\ result' = IF c.error THEN "AttributeError" ELSE "return"
           /\ fn_out' = IF c.error THEN c.doc ELSE written_manifest(c.doc)
    /\ UNCHANGED <<runvars, host, to_ver, fn_in>>

NextMerge == update_npm_packages_call

SpecMerge == InitMerge /\ [][NextMerge]_vars

\* ------------------------------------------ clone_apps_from: setup_app
\* A Python string value is <<type, text>>: subprocess.check_output returns
\* bytes, a literal in the source is a str, and a bytes object never equals a
\* str.

Bytes(text) == <<"bytes", text>>

Str(text) == <<"str", text>>

RemoteNames == {"origin", "upstream", "fork", "backup"}

\* What `git remote` lists: remote names, each once, in any order.
RemoteListings ==
    { l \in UNION {[1..n -> RemoteNames] : n \in 0..Cardinality(RemoteNames)} :
        \A i, j \in 1..Len(l) : l[i] = l[j] => i = j }

\* remotes = subprocess.check_output(['git', 'remote'], ...).strip().split()
check_output_remotes(listing) == [i \in 1..Len(listing) |-> Bytes(listing[i])]

\* if 'upstream' in remotes: remote = 'upstream' else: remote = remotes[0]
setup_app_remote(listing) ==
    LET remotes == check_output_remotes(listing)
    IN  IF \E i \in 1..Len(remotes) : remotes[i] = Str("upstream")
        THEN [raised |-> "", remote |-> Str("upstream")]
        ELSE IF remotes = <<>>
             THEN [raised |-> "IndexError", remote |-> Str("")]
             ELSE [raised |-> "", remote |-> remotes[1]]

InitRemote ==
    /\ IdleRun
    /\ fn_in \in RemoteListings
    /\ fn_out = ""

\* setup_app(app) picks the remote of an app whose `git remote` lists fn_in.
setup_app_call ==
    /\ result = ""
    /\ LET r == setup_app_remote(fn_in)
       IN  /\ result' = IF r.raised # "" THEN r.raised ELSE "return"
           /\ fn_out' = r.remote
    /\ UNCHANGED <<runvars, host, to_ver, fn_in>>

NextRemote == setup_app_call

SpecRemote == InitRemote /\ [][NextRemote]_vars

\* ---------------------------------------------------- update_json_file

JsonKeys == {"a", "b", "c"}

\* JSON documents: objects with some of the keys, each 0 or 1.
JsonDocs == UNION {[K -> {0, 1}] : K \in SUBSET JsonKeys}

EmptyDoc == [k \in {} |-> 0]

\* The file on disk: missing, or holding a document.
JsonFiles ==
    {[exists |-> FALSE, content |-> EmptyDoc]}
        \cup {[exists |-> TRUE, content |-> d] : d \in JsonDocs}

\* if os.path.exists(filename): content = json.load(f) else: content = {}
json_load(file) == IF file.exists THEN file.content ELSE EmptyDoc

InitJson ==
    /\ IdleRun
    /\ fn_in \in [file : JsonFiles, ddict : JsonDocs]
    /\ fn_out = ""

\* update_json_file(filename, ddict): fn_out is the file afterwards.
update_json_file_call ==
    /\ result = ""
    /\ result' = "return"
    /\ fn_out' = [exists |-> TRUE,
                  content |-> update_json_file(json_load(fn_in.file), fn_in.ddict)]
    /\ UNCHANGED <<runvars, host, to_ver, fn_in>>

NextJson == update_json_file_call

SpecJson == InitJson /\ [][NextJson]_vars

\* ------------------------------- update_json_file, concurrent callers
\* Two processes call update_json_file on one file while a third reads it.
\* The text of a file is a sequence of tokens <<name, value>>: the braces of
\* the JSON object, one token per item, and NUL for a hole left by a write
\* beyond the end.  fn_in holds the file before the calls and each caller's
\* ddict; fn_out holds the file, each caller's statement, locals and file
\* position, and what the reader got.

Writers == {"w1", "w2"}

OpenBrace == <<"{", 0>>

CloseBrace == <<"}", 0>>

Nul == <<"NUL", 0>>

KeyOrder == <<"a", "b", "c">>

\* json.dump(content, f, indent=1, sort_keys=True): the text of a document.
json_dumps(doc) ==
    LET keys == SelectSeq(KeyOrder, LAMBDA k : k \in DOMAIN doc)
    IN  <<OpenBrace>> \o [i \in 1..Len(keys) |-> <<keys[i], doc[keys[i]]>>] \o <<CloseBrace>>

\* json.load(f) succeeds on the text of one whole object only.
json_parses(text) ==
    /\ Len(text) >= 2
    /\ text[1] = OpenBrace
    /\ text[Len(text)] = CloseBrace
    /\ \A i \in 2..(Len(text) - 1) : text[i][1] \in JsonKeys

\* The document json.load returns for a text that parses: for a repeated key
\* the last item counts.
json_loads(text) ==
    LET items == SubSeq(text, 2, Len(text) - 1)
        keys == {items[i][1] : i \in 1..Len(items)}
    IN  [k \in keys |->
           LET last == CHOOSE i \in 1..Len(items) :
                          items[i][1] = k /\ \A j \in 1..Len(items) : items[j][1] = k => j <= i
           IN  items[last][2]]

\* f.write(chunk) at file position pos (counted from 0) of a file opened
\* without O_APPEND: a write beyond the end leaves a hole.
write_at(data, pos, chunk) ==
    LET padded == data \o [i \in 1..(pos - Len(data)) |-> Nul]
    IN  SubSeq(padded, 1, pos) \o chunk \o SubSeq(padded, pos + Len(chunk) + 1, Len(padded))

\* The documents and ddicts of the concurrent calls.
SharedDocs == {d \in JsonDocs : DOMAIN d \subseteq {"a", "b"} /\ \A k \in DOMAIN d : d[k] = 0}

SharedDdicts == {[k \in {"a"} |-> 1], [k \in {"b"} |-> 1], [k \in {"a", "b"} |-> 1]}

InitAtomic ==
    /\ IdleRun
    /\ fn_in \in [file : {f \in JsonFiles : f.content \in SharedDocs},
                  ddict : [Writers -> SharedDdicts]]
    /\ fn_out = [file |-> [exists |-> fn_in.file.exists,
                           data |-> IF fn_in.file.exists
                                    THEN json_dumps(fn_in.file.content) ELSE <<>>],
                 w |-> [p \in Writers |->
                          [pc |-> "load", content |-> EmptyDoc, text |-> <<>>, pos |-> 0]],
                 seen |-> "nothing"]

\* lines 670-675: content = json.load(f) when the file exists, else {};
\* json.load raises on a text that is not one whole object.
writer_load(p) ==
    /\ fn_out.w[p].pc = "load"
    /\ fn_out' = [fn_out EXCEPT !.w[p] =
          IF ~fn_out.file.exists
          THEN [@ EXCEPT !.pc = "update", !.content = EmptyDoc]
          ELSE IF json_parses(fn_out.file.data)
          THEN [@ EXCEPT !.pc = "update", !.content = json_loads(fn_out.file.data)]
          ELSE [@ EXCEPT !.pc = "JSONDecodeError"]]
    /\ UNCHANGED <<runvars, host, to_ver, result, fn_in>>

\* line 677: content.update(ddict)
writer_update(p) ==
    /\ fn_out.w[p].pc = "update"
    /\ fn_out' = [fn_out EXCEPT !.w[p] =
          [@ EXCEPT !.pc = "open",
                    !.content = update_json_file(@, fn_in.ddict[p])]]
    /\ UNCHANGED <<runvars, host, to_ver, result, fn_in>>

\* line 678: open(filename, 'w') creates the file or truncates it to nothing.
writer_open(p) ==
    /\ fn_out.w[p].pc = "open"
    /\ fn_out' = [fn_out EXCEPT
          !.file = [exists |-> TRUE, data |-> <<>>],
          !.w[p] = [@ EXCEPT !.pc = "dump", !.text = json_dumps(fn_out.w[p].content),
                             !.pos = 0]]
    /\ UNCHANGED <<runvars, host, to_ver, result, fn_in>>

\* line 679: json.dump writes the text through the file's buffer, which
\* reaches the file in one piece or in several; the with block closes the
\* file when all of it is written.
writer_dump(p) ==
    /\ fn_out.w[p].pc = "dump"
    /\ \E n \in 1..Len(fn_out.w[p].text) :
         LET me == fn_out.w[p]
             chunk == SubSeq(me.text, 1, n)
             rest == SubSeq(me.text, n + 1, Len(me.text))
         IN  fn_out' = [fn_out EXCEPT
               !.file.data = write_at(@, me.pos, chunk),
               !.w[p] = [@ EXCEPT !.pc = IF rest = <<>> THEN "done" ELSE "dump",
                                  !.text = rest, !.pos = @ + n]]
    /\ UNCHANGED <<runvars, host, to_ver, result, fn_in>>

\* Another process reads the file once.
reader_read ==
    /\ fn_out.seen = "nothing"
    /\ fn_out' = [fn_out EXCEPT !.seen =
          IF ~fn_out.file.exists THEN "missing"
          ELSE IF json_parses(fn_out.file.data) THEN "document" ELSE "broken"]
    /\ UNCHANGED <<runvars, host, to_ver, result, fn_in>>

NextAtomic ==
    \/ \E p \in Writers : writer_load(p) \/ writer_update(p) \/ writer_open(p) \/ writer_dump(p)
    \/ reader_read

SpecAtomic == InitAtomic /\ [][NextAtomic]_vars

\* ------------------------------------------------------------- exec_cmd
\* An environment is a set of <<name, value>> pairs, one per name at most.
\* The env argument is None or an environment.  result is the statement of
\* exec_cmd that ran last; fn_out holds the env local, the environment the
\* child got, what was echoed and logged so far, and the value returned (a
\* set: empty for None).

EnvNames == {"BENCH_DEVELOPER", "PATH"}

Environments ==
    { e \in SUBSET (EnvNames \X {"0", "1"}) :
        \A p, q \in e : p[1] = q[1] => p = q }

EnvArgs ==
    {[none |-> TRUE, vars |-> {}]} \cup {[none |-> FALSE, vars |-> e] : e \in Environments}

Commands == {"npm install", "yarn install"}

\* What the child process does: the executable is not found, or it runs and
\* exits with a return code (negative when a signal killed it).
ChildResults ==
    {[found |-> FALSE, return_code |-> 0]}
        \cup {[found |-> TRUE, return_code |-> r] : r \in RetCodes \cup {2}}

ExecCalls == [cmd : Commands, cwd : {".", "apps"}, env : EnvArgs,
              environ : Environments, child : ChildResults]

\* if env: env.update(os.environ.copy()); an empty dict is false.
exec_env(env, environ) ==
    IF ~env.none /\ env.vars # {}
    THEN [none |-> FALSE, vars |-> items_update(env.vars, environ)]
    ELSE env

\* subprocess.call(..., env=env): the child inherits os.environ when env is None.
child_environment(env, environ) == IF env.none THEN environ ELSE env.vars

\* cmd_log = f"{cwd_info}{cmd}", cwd_info = f"cd {cwd} && " if cwd != "." else ""
cmd_log(cmd, cwd) == <<IF cwd # "." THEN <<"cd ", cwd, " && ">> ELSE <<>>, cmd>>

LogEntry(kind, text, code) == [kind |-> kind, text |-> text, code |-> code]

\* The value a function returns when it ends without a return statement.
None == {}

InitExec ==
    /\ IdleRun
    /\ fn_in \in ExecCalls
    /\ fn_out = ""

\* lines 286-287
exec_cmd_env ==
    /\ result = ""
    /\ result' = "env"
    /\ fn_out' = [env |-> exec_env(fn_in.env, fn_in.environ), child_env |-> {},
                  log |-> <<>>, ret |-> None]
    /\ UNCHANGED <<runvars, host, to_ver, fn_in>>

\* lines 289-293: click.secho(f"$ {cmd}"), logger.debug(cmd_log)
exec_cmd_echo ==
    /\ result = "env"
    /\ result' = "echo"
    /\ fn_out' = [fn_out EXCEPT !.log = @ \o
                     << LogEntry("secho", <<"$ ", fn_in.cmd>>, 0),
                        LogEntry("debug", cmd_log(fn_in.cmd, fn_in.cwd), 0) >>]
    /\ UNCHANGED <<runvars, host, to_ver, fn_in>>

\* line 295: subprocess.call raises FileNotFoundError when there is no such
\* executable, else returns the child's return code.
exec_cmd_call ==
    /\ result = "echo"
    /\ result' = IF fn_in.child.found THEN "call" ELSE "FileNotFoundError"
    /\ fn_out' = [fn_out EXCEPT
                     !.child_env = IF fn_in.child.found
                                   THEN child_environment(fn_out.env, fn_in.environ) ELSE @,
                     !.log = IF fn_in.child.found
                             THEN Append(@, LogEntry("call", <<fn_in.cmd>>,
                                                     fn_in.child.return_code))
                             ELSE @]
    /\ UNCHANGED <<runvars, host, to_ver, fn_in>>

\* lines 296-297, after which the function ends: there is no return statement.
exec_cmd_return ==
    /\ result = "call"
    /\ result' = "return"
    /\ fn_out' = [fn_out EXCEPT
                     !.log = IF fn_in.child.return_code # 0
                             THEN Append(@, LogEntry("warning", cmd_log(fn_in.cmd, fn_in.cwd),
                                                     fn_in.child.return_code))
                             ELSE @,
                     !.ret = None]
    /\ UNCHANGED <<runvars, host, to_ver, fn_in>>

NextExec == exec_cmd_env \/ exec_cmd_echo \/ exec_cmd_call \/ exec_cmd_return

SpecExec == InitExec /\ [][NextExec]_vars

\* ------------------------------------------------------- reading `calls`

HasCall(name) == \E i \in 1..Len(calls) : calls[i][1] = name

Count(name) == Cardinality({i \in 1..Len(calls) : calls[i][1] = name})

EntryWrite == <<"update_config", <<1>>>>

ExitWrite == <<"update_config", <<0>>>>

HasEntry(e) == \E i \in 1..Len(calls) : calls[i] = e

\* The calls that belong to a stage of update() (backup, source sync,
\* dependency reconciliation, migration, asset build, post-upgrade, compile,
\* restart).
NodeCalls == {"update_node_packages", "update_npm_packages", "update_yarn_packages",
              "npm install", "yarn install", "print"}

StageCalls == {"backup_site", "pull_apps", "update_env_pip", "install_app",
               "migrate_site", "build_assets",
               "post_upgrade", "generate_config", "compile_dir",
               "restart_supervisor_processes", "restart_systemd_processes"}
              \cup NodeCalls

NoStageInvoked == \A i \in 1..Len(calls) : calls[i][1] \notin StageCalls

MaintenanceFlags(d) == <<Get(d, "maintenance_mode"), Get(d, "pause_scheduler")>>

\* The stage flags as update() treats them: all four on when none was passed.
NonePassed == ~(args.pull \/ args.patch \/ args.build \/ args.requirements)

\* Position of a call in the order the stages are specified to run in.
Rank(c) ==
    CASE c = EntryWrite -> 1
      [] c[1] = "backup_site" -> 2
      [] c[1] = "pull_apps" -> 3
      [] c[1] \in {"update_env_pip", "install_app"} -> 4
      [] c[1] \in NodeCalls -> 5
      [] c[1] = "migrate_site" -> 6
      [] c[1] = "build_assets" -> 7
      [] c[1] \in {"post_upgrade", "generate_config", "compile_dir",
                   "restart_supervisor_processes", "restart_systemd_processes"} -> 8
      [] c = ExitWrite -> 9
      [] OTHER -> 0

\* The statements of update() that follow update_node_packages.
StagesAfterNode == {"patch_sites", "build_assets", "post_upgrade", "compile",
                    "restart_supervisor_processes", "restart_systemd_processes"}

\* The statements of update() that run before the confirmation is decided.
BeforeConfirm == {"idle", "clear_command_cache", "release_bench", "default_stages",
                  "validate_branch", "is_version_upgrade", "confirm"}

\* ----------------------------------------------------------------- claims

\* C1: once update() has persisted maintenance_mode=1 and pause_scheduler=1,
\* every way the run can end ends with the flag-clearing write executed, so
\* that maintenance_mode=0 and pause_scheduler=0 are persisted.  The code has
\* no cleanup on its failure paths: TLC finds this violated.
C1_FlagsClearedOnEveryExit ==
    (pc = "done" /\ HasEntry(EntryWrite)) =>
        (HasEntry(ExitWrite) /\ MaintenanceFlags(conf_file) = <<0, 0>>)

\* C2: on an installation whose configuration has release_bench set, no step
\* of update() changes the persisted configuration, writes or removes a file
\* (the command cache file included) or invokes a stage, and the run ends with
\* exit code 1.  The code removes the cache file first: TLC finds this violated.
C2_ReleaseBenchZeroMutations ==
    [][Get(conf_file, "release_bench") # 0 =>
         /\ conf_file' = conf_file
         /\ cache_file' = cache_file
         /\ calls' = calls
         /\ (pc' = "done" => exit_code' = 1)]_vars

\* C3: patch_sites fails fast and with PatchError: the migration of a later
\* site is invoked only if the previous site's migration did not exit with a
\* non-zero status, and a failure that leaves patch_sites is a PatchError.
\* The code leaves with SystemExit: TLC finds this violated.
C3_FailFastWithPatchError ==
    /\ (pc = "patch_sites" /\ patch /\ site_i \in 2..MaxSites) => ~(return_code > 0)
    /\ failed_at = "patch_sites" => outcome = "PatchError"

\* C4: whenever a site migration is invoked the persisted configuration has
\* maintenance_mode=1 and pause_scheduler=1: the loop of patch_sites runs with
\* both flags persisted, and every migrate_site call comes after the
\* maintenance-entry write and before any maintenance-exit write.
C4_MigrateOnlyInMaintenance ==
    /\ pc = "patch_sites" => MaintenanceFlags(conf_file) = <<1, 1>>
    /\ \A i \in 1..Len(calls) :
        calls[i][1] = "migrate_site" =>
            /\ \E j \in 1..(i - 1) : calls[j] = EntryWrite
            /\ \A j \in 1..(i - 1) : calls[j] # ExitWrite

C4_Witness ==
    /\ outcome = "returned"
    /\ Count("migrate_site") = MaxSites
    /\ MaintenanceFlags(conf0) = <<0, 0>>

\* C5: from the maintenance-entry write on, and at the end of the run, the
\* persisted maintenance_mode and pause_scheduler are equal and are the value
\* of the last write: both 1 after the entry write, both 0 after the exit write.
C5_FlagsWrittenTogether ==
    HasCall("update_config") =>
        /\ Get(conf_file, "maintenance_mode") = Get(conf_file, "pause_scheduler")
        /\ MaintenanceFlags(conf_file) =
               IF HasEntry(ExitWrite) THEN <<0, 0>> ELSE <<1, 1>>

C5_Witness ==
    /\ outcome = "returned"
    /\ HasEntry(EntryWrite) /\ HasEntry(ExitWrite)
    /\ MaintenanceFlags(conf0) = <<1, 1>>
    /\ MaintenanceFlags(conf_file) = <<0, 0>>

\* C6: the stages run strictly in the order maintenance entry, backup, source
\* sync, dependency reconciliation (backend, then front-end), site migration,
\* asset build, maintenance exit, and each enabled stage has completed when a
\* later one begins: every site backed up before the sync, the sync done
\* before the first dependency install, every app installed and the front-end
\* packages updated before the first migration, every site migrated before
\* the build.
C6_StagesInOrder ==
    /\ \A i, j \in 1..Len(calls) : i < j => Rank(calls[i]) <= Rank(calls[j])
    /\ \A i \in 1..Len(calls) :
        Rank(calls[i]) > 0 => \E j \in 1..i : calls[j] = EntryWrite
    /\ (HasCall("pull_apps") /\ args.backup) => Count("backup_site") = MaxSites
    /\ (HasCall("update_env_pip") /\ pull) => HasCall("pull_apps")
    /\ (HasCall("migrate_site") /\ requirements) =>
          (Count("install_app") = MaxApps /\ HasCall("update_node_packages"))
    /\ (HasCall("build_assets") /\ patch) => Count("migrate_site") = MaxSites
    /\ (HasEntry(ExitWrite) /\ build) => HasCall("build_assets")

C6_Witness ==
    /\ outcome = "returned"
    /\ args.backup /\ pull /\ requirements /\ patch /\ build
    /\ Count("backup_site") = MaxSites /\ Count("install_app") = MaxApps
    /\ Count("migrate_site") = MaxSites /\ HasCall("build_assets")

\* C7: with no stage flag passed all four stages run; otherwise a stage is
\* invoked only if its flag was passed, and a run that completes has made
\* exactly one source-sync call and one dependency reconciliation (one install
\* per app, one front-end update) and one asset build for the flags passed,
\* and one migration per site, and none for the flags not passed.
C7_ExactlyTheSelectedStages ==
    LET on(f) == NonePassed \/ f
        n(f, k) == IF on(f) THEN k ELSE 0
    IN  /\ HasCall("pull_apps") => on(args.pull)
        /\ (HasCall("update_env_pip") \/ HasCall("install_app")
              \/ HasCall("update_node_packages")) => on(args.requirements)
        /\ HasCall("migrate_site") => on(args.patch)
        /\ HasCall("build_assets") => on(args.build)
        /\ outcome = "returned" =>
              /\ Count("pull_apps") = n(args.pull, 1)
              /\ Count("update_env_pip") = n(args.requirements, 1)
              /\ Count("install_app") = n(args.requirements, MaxApps)
              /\ Count("update_node_packages") = n(args.requirements, 1)
              /\ Count("migrate_site") = n(args.patch, MaxSites)
              /\ \A s \in Sites :
                    Cardinality({i \in 1..Len(calls) : calls[i] = <<"migrate_site", <<s>>>>})
                        = n(args.patch, 1)
              /\ Count("build_assets") = n(args.build, 1)

C7_Witness ==
    /\ outcome = "returned"
    /\ args.pull /\ args.patch /\ ~args.build /\ ~args.requirements /\ ~args.backup
    /\ Count("pull_apps") = 1 /\ Count("update_env_pip") = 0
    /\ Count("migrate_site") = MaxSites /\ Count("build_assets") = 0

\* C8: update() asks the operator for confirmation if and only if the
\* transition is major and the force flag was not passed; when the operator
\* declines, the run ends with a non-zero exit, the persisted configuration as
\* it was when update() was called, and no stage invoked.
C8_ConfirmOnlyUnforcedMajor ==
    /\ pc \notin BeforeConfirm =>
          (HasCall("click.confirm") <=> (version_upgrade[1] /\ ~args.force))
    /\ HasCall("click.confirm") => (version_upgrade[1] /\ ~args.force)
    /\ outcome = "Abort" =>
          /\ failed_at = "confirm"
          /\ exit_code # 0
          /\ conf_file = conf0
          /\ ~HasCall("update_config")
          /\ NoStageInvoked

C8_Witness ==
    /\ outcome = "Abort"
    /\ HasCall("click.confirm")
    /\ version_upgrade[1] /\ ~args.force

\* C9: a run that gets to the validation step runs validate_upgrade if and
\* only if the transition is major or the force flag is set; the validation
\* precedes the maintenance-entry write and every stage; when it fails the run
\* ends with the persisted configuration unchanged and no stage invoked.
C9_ValidateBeforeMaintenance ==
    /\ (pc \notin (BeforeConfirm \cup {"validate_upgrade"})
          /\ failed_at \notin {"release_bench", "validate_branch", "confirm"}) =>
          (HasCall("validate_upgrade") <=> (version_upgrade[1] \/ args.force))
    /\ HasCall("validate_upgrade") => (version_upgrade[1] \/ args.force)
    /\ \A i \in 1..Len(calls) :
          calls[i][1] = "validate_upgrade" =>
              \A j \in 1..(i - 1) :
                  calls[j][1] # "update_config" /\ calls[j][1] \notin StageCalls
    /\ failed_at = "validate_upgrade" =>
          /\ outcome = "Exception"
          /\ exit_code # 0
          /\ conf_file = conf0
          /\ ~HasCall("update_config")
          /\ NoStageInvoked

C9_Witness ==
    /\ failed_at = "validate_upgrade"
    /\ HasCall("validate_upgrade")
    /\ args.force /\ ~version_upgrade[1]

\* C10: validate_upgrade fails exactly when to_ver >= 6 and npm is not on the
\* host, whatever the presence of node and nodejs.  The code also needs node
\* and nodejs to be missing before it fails: TLC finds this violated.
C10_FailsWithoutNpm ==
    result # "" => (result = "raise" <=> (to_ver >= 6 /\ "npm" \notin host))

C12_BranchValidatedOnceFirst ==
    /\ Count("validate_branch") <= 1
    /\ (Get(conf0, "release_bench") = 0
          /\ pc \notin {"idle", "clear_command_cache", "release_bench",
                        "default_stages", "validate_branch"}) =>
          Count("validate_branch") = 1
    /\ \A i \in 1..Len(calls) :
          (calls[i][1] = "update_config" \/ calls[i][1] \in StageCalls) =>
              \E j \in 1..(i - 1) : calls[j][1] = "validate_branch"
    /\ failed_at = "validate_branch" =>
          /\ pc = "done"
          /\ outcome \notin {"", "returned"}
          /\ exit_code # 0
          /\ conf_file = conf0
          /\ ~HasCall("update_config")
          /\ NoStageInvoked

C12_Witness ==
    /\ failed_at = "validate_branch"
    /\ Count("validate_branch") = 1
    /\ Get(conf0, "release_bench") = 0

\* C13: update_node_packages selects exactly one backend, never an exception:
\* update_npm_packages when the develop version of frappe is below
\* 11.x.x-develop (its major version is below 11), update_yarn_packages when it
\* is at or above.  10.9.0-develop selects update_npm_packages and
\* 11.0.0-develop selects update_yarn_packages.  The comparison of 11.0.0 with
\* 11.x.x raises TypeError: TLC finds this violated.
C13_OneBackendByVersion ==
    fn_out # "" =>
        /\ fn_out \in {"update_npm_packages", "update_yarn_packages"}
        /\ fn_out = "update_npm_packages" <=> LooseVersion(fn_in)[1].n < 11

\* The manifests of the listing that have key k, in listing order.
Having(listing, k) == SelectSeq(listing, LAMBDA m : m[k].t # "absent")

\* Every manifest that has key k has it with the same type.
SameType(listing, k) ==
    \A i, j \in 1..Len(listing) :
        (listing[i][k].t # "absent" /\ listing[j][k].t # "absent") =>
            listing[i][k].t = listing[j][k].t

RECURSIVE ConcatLists(_, _)
ConcatLists(ms, k) ==
    IF ms = <<>> THEN <<>> ELSE ms[1][k].l \o ConcatLists(Tail(ms), k)

\* The value of inner key x in the last manifest of ms whose dict k has it.
LastItem(ms, k, x) ==
    LET I == {i \in 1..Len(ms) : \E q \in ms[i][k].d : q[1] = x}
        last == CHOOSE i \in I : \A j \in I : j <= i
    IN  CHOOSE q \in ms[last][k].d : q[1] = x

\* C14: when every key has one type in the manifests that have it, the
\* combined manifest has exactly the keys of the manifests; a key of a single
\* manifest keeps its value; for a key of several, dict values are merged
\* key-wise with the later manifest winning, lists are concatenated in listing
\* order and a scalar is the last manifest's.
C14_ShallowKeyMerge ==
    (result # "" /\ \A k \in ManifestKeys : SameType(fn_in, k)) =>
        /\ result = "return"
        /\ \A k \in ManifestKeys :
              LET ms == Having(fn_in, k)
                  v == fn_out[k]
              IN  /\ ms = <<>> <=> v.t = "absent"
                  /\ Len(ms) = 1 => v = ms[1][k]
                  /\ Len(ms) >= 1 =>
                        /\ v.t = ms[1][k].t
                        /\ v.t = "scalar" => v = ms[Len(ms)][k]
                        /\ v.t = "list" => v.l = ConcatLists(ms, k)
                        /\ v.t = "dict" =>
                              /\ {q[1] : q \in v.d} =
                                    UNION {{q[1] : q \in ms[i][k].d} : i \in 1..Len(ms)}
                              /\ \A q \in v.d : q = LastItem(ms, k, q[1])

\* {dependencies: {a: 1}, scripts: [build]} then {dependencies: {b: 2},
\* scripts: [test]} combine to {dependencies: {a: 1, b: 2}, scripts: [build, test]}.
C14_Witness ==
    /\ result = "return"
    /\ Len(fn_in) >= 2
    /\ fn_in[1] = [k \in ManifestKeys |-> IF k = "dependencies"
                       THEN Dict({<<"a", 1>>}) ELSE List(<<"build">>)]
    /\ fn_in[2] = [k \in ManifestKeys |-> IF k = "dependencies"
                       THEN Dict({<<"b", 2>>}) ELSE List(<<"test">>)]
    /\ \A i \in 3..Len(fn_in) : fn_in[i] = EmptyManifest
    /\ fn_out["dependencies"] = Dict({<<"a", 1>>, <<"b", 2>>})
    /\ fn_out["scripts"] = List(<<"build", "test">>)

\* C15: for an app with at least one remote, setup_app pulls from the remote
\* named upstream whenever upstream is among the listed remotes, and from the
\* first listed remote otherwise.  The listed names are bytes and the test
\* compares them with the str 'upstream': TLC finds this violated.
C15_UpstreamPreferred ==
    (result # "" /\ Len(fn_in) >= 1) =>
        /\ result = "return"
        /\ fn_out[2] = IF \E i \in 1..Len(fn_in) : fn_in[i] = "upstream"
                       THEN "upstream" ELSE fn_in[1]

\* C16: after update_json_file(file, d) the file holds a document in which
\* every key of d has d's value, every other key of the previous document has
\* its previous value, and there is no other key; when the file was missing
\* the document is exactly d.
C16_MergeKeepsOtherKeys ==
    result # "" =>
        LET old == fn_in.file.content
            d == fn_in.ddict
            new == fn_out.content
        IN  /\ fn_out.exists
            /\ DOMAIN new = (IF fn_in.file.exists THEN DOMAIN old ELSE {}) \cup DOMAIN d
            /\ \A k \in DOMAIN d : new[k] = d[k]
            /\ fn_in.file.exists =>
                  \A k \in DOMAIN old \ DOMAIN d : new[k] = old[k]
            /\ ~fn_in.file.exists => new = d

C16_Witness ==
    /\ result # ""
    /\ fn_in.file.exists
    /\ DOMAIN fn_in.file.content = {"a", "b"}
    /\ DOMAIN fn_in.ddict = {"b", "c"}
    /\ fn_in.file.content["b"] # fn_in.ddict["b"]
    /\ DOMAIN fn_out.content = {"a", "b", "c"}
    /\ fn_out.content["a"] = fn_in.file.content["a"]
    /\ fn_out.content["b"] = fn_in.ddict["b"]

\* C17: once the child of exec_cmd has exited, exec_cmd returns instead of
\* raising; for a non-zero exit status it has logged one warning with the
\* command and the status and it returns that status to its caller; for status
\* 0 it has logged no warning; the echo of the command precedes the execution.
\* exec_cmd has no return statement, so its caller gets None: TLC finds this
\* violated.
C17_WarnsAndReturnsCode ==
    LET rc == fn_in.child.return_code
        warnings == SelectSeq(fn_out.log, LAMBDA e : e.kind = "warning")
    IN  /\ result = "call" =>
              \E i, j \in 1..Len(fn_out.log) :
                  /\ i < j
                  /\ fn_out.log[i] = LogEntry("secho", <<"$ ", fn_in.cmd>>, 0)
                  /\ fn_out.log[j].kind = "call"
        /\ result = "return" =>
              /\ rc # 0 =>
                    /\ warnings = <<LogEntry("warning", cmd_log(fn_in.cmd, fn_in.cwd), rc)>>
                    /\ fn_out.ret = {rc}
              /\ rc = 0 => warnings = <<>>

\* C18: when the executable of the selected backend (npm for
\* update_npm_packages, yarn for update_yarn_packages) is missing, the step
\* prints a message, runs no install command and returns, so that the run does
\* not end there.  update_npm_packages never looks for npm and its exec_cmd
\* raises FileNotFoundError: TLC finds this violated.
C18_MissingManagerSkipsInstall ==
    pm_found = "missing" =>
        /\ ~HasCall("npm install") /\ ~HasCall("yarn install")
        /\ HasEntry(<<"print", <<>>>>)
        /\ failed_at # "update_node_packages"
        /\ outcome \in {"running", "returned"} \/ failed_at \in StagesAfterNode

\* C19: when a site migration has failed (its child process ended with a
\* non-zero return code), update() ends there: no later call is made (further
\* migrations, build, post-upgrade, compile, restarts, the maintenance-exit
\* write), the process exits non-zero and the persisted configuration still
\* has maintenance_mode=1 and pause_scheduler=1.  A migration killed by a
\* signal has a negative return code, which run_frappe_cmd lets pass: TLC
\* finds this violated.
C19_MigrationFailurePropagates ==
    /\ (Len(calls) > 0 /\ calls[Len(calls)][1] = "migrate_site" /\ return_code # 0) =>
          /\ pc = "done"
          /\ failed_at = "patch_sites"
          /\ exit_code # 0
          /\ MaintenanceFlags(conf_file) = <<1, 1>>
    /\ failed_at = "patch_sites" =>
          /\ calls[Len(calls)][1] = "migrate_site"
          /\ ~HasEntry(ExitWrite)

\* C20: whenever pull_apps is called, it gets the operator's selection: the
\* names of the --apps option (split on commas and spaces, trimmed, empty
\* items dropped) when the option was passed, also when pull is on only by the
\* stage defaults, and an empty list, meaning every installed app, when it was
\* not.  update() empties apps before it applies the stage defaults: TLC finds
\* this violated.
C20_PullOverSelection ==
    \A i \in 1..Len(calls) :
        calls[i][1] = "pull_apps" =>
            calls[i][2] = IF args.apps = <<>> THEN <<>> ELSE <<<<"a">>, <<"b">>>>

\* C21: backup_site is called only when the backup flag is set, and then once
\* per site in listed order, after the maintenance-entry write and before
\* pull_apps; when the backup of a site has failed (its child process ended
\* with a non-zero return code) the run ends there with a non-zero exit: no
\* later site is backed up and no later stage starts.  A backup killed by a
\* signal has a negative return code, which run_frappe_cmd lets pass: TLC
\* finds this violated.
C21_BackupBeforePullFailFast ==
    /\ HasCall("backup_site") => args.backup
    /\ (args.backup /\ HasCall("pull_apps")) => Count("backup_site") = MaxSites
    /\ \A i \in 1..Len(calls) :
          calls[i][1] = "backup_site" =>
              /\ \E j \in 1..(i - 1) : calls[j] = EntryWrite
              /\ \A j \in 1..(i - 1) : calls[j][1] # "pull_apps"
              /\ \A j \in 1..(i - 1) :
                    calls[j][1] = "backup_site" => calls[j][2][1] < calls[i][2][1]
    /\ (Len(calls) > 0 /\ calls[Len(calls)][1] = "backup_site" /\ return_code # 0) =>
          /\ pc = "done"
          /\ failed_at = "backup_all_sites"
          /\ exit_code # 0

\* The documents one caller's read-modify-write can leave: its ddict merged
\* into the document before the calls or into the other caller's result.
MergedDocs ==
    LET before == IF fn_in.file.exists THEN fn_in.file.content ELSE EmptyDoc
        once == {update_json_file(before, fn_in.ddict[p]) : p \in Writers}
    IN  once \cup {update_json_file(d, fn_in.ddict[p]) : d \in once, p \in Writers}

\* C22: whatever the interleaving of two update_json_file calls and a reader
\* on one file, the file holds at every point the whole previous document or
\* a whole merged document, never an empty or partly written text, the reader
\* never gets a broken text, and when both calls are over the file holds the
\* whole result of one caller's read-modify-write.  open(filename, 'w')
\* truncates the file before anything is written: TLC finds this violated.
C22_WriteIsAtomic ==
    /\ fn_out.file.exists =>
          /\ json_parses(fn_out.file.data)
          /\ json_loads(fn_out.file.data) \in
                MergedDocs \cup (IF fn_in.file.exists THEN {fn_in.file.content} ELSE {})
    /\ fn_out.seen # "broken"
    /\ \A p \in Writers : fn_out.w[p].pc # "JSONDecodeError"

\* C23: after the child process of run_frappe_cmd (a site's backup or
\* migration) has returned, run_frappe_cmd has ended the run with a failure
\* exactly when the return code is not 0, negative codes of a child killed by
\* a signal included, and has returned to its caller exactly when the code is
\* 0; after a failure no later site is migrated or backed up.  The code tests
\* return_code > 0: TLC finds this violated.
C23_EveryNonZeroCodeFails ==
    (Len(calls) > 0 /\ calls[Len(calls)][1] \in {"migrate_site", "backup_site"}) =>
        /\ return_code # 0 <=> failed_at \in {"patch_sites", "backup_all_sites"}
        /\ return_code # 0 => (pc = "done" /\ outcome \notin {"running", "returned"})

\* The calls of update() that are one command run through exec_cmd.
ExecCmdCalls == {"update_env_pip", "npm install", "yarn install", "build_assets"}

\* C24: when the command update() ran last through exec_cmd (the pip
\* self-upgrade, a front-end install, the asset build) has exited, whatever its
\* return code, the run has not ended there; no run ends by a failure of the
\* pip self-upgrade or of the asset build, and one that ends in the front-end
\* update ran no install command to its exit; a run that completes has cleared
\* maintenance_mode and pause_scheduler and changed nothing else of the
\* persisted configuration, whatever the last return code.
C24_ExecFailureNeverAborts ==
    /\ (Len(calls) > 0 /\ calls[Len(calls)][1] \in ExecCmdCalls) =>
          (outcome = "running" /\ pc # "done")
    /\ failed_at \notin {"update_requirements", "build_assets"}
    /\ failed_at = "update_node_packages" =>
          (~HasCall("npm install") /\ ~HasCall("yarn install"))
    /\ outcome = "returned" =>
          /\ conf_file = update_config(conf0, maintenance_off)
          /\ HasCall("build_assets") <=> (NonePassed \/ args.build)
          /\ HasCall("update_env_pip") <=> (NonePassed \/ args.requirements)

C24_Witness ==
    /\ outcome = "returned"
    /\ return_code = 1
    /\ calls[Len(calls) - 1] = <<"build_assets", <<>>>>
    /\ MaintenanceFlags(conf_file) = <<0, 0>>

\* C25: the child process of exec_cmd sees, for every name in the env
\* argument, the value the caller passed, whatever the process environment
\* holds for that name, and every other variable of the process environment;
\* so BENCH_DEVELOPER=1 passed by build_assets reaches the build.  The code
\* updates env with os.environ, which lets the process environment win: TLC
\* finds this violated.
C25_OverridesTakePrecedence ==
    result \in {"call", "return"} =>
        LET passed == IF fn_in.env.none THEN {} ELSE fn_in.env.vars
        IN  /\ \A v \in passed : v \in fn_out.child_env
            /\ \A v \in fn_in.environ :
                  (\A q \in passed : q[1] # v[1]) => v \in fn_out.child_env
            /\ \A v \in fn_out.child_env : v \in passed \cup fn_in.environ

\* C26: update_npm_packages writes the bundled default package.json when no
\* listed app provides a manifest (the combined manifest is empty), and the
\* combined manifest, not the default, when at least one app provides one.
\* `package_json is {}` compares with a new object and is never true: TLC finds
\* this violated.
C26_DefaultManifestWhenEmpty ==
    result = "return" =>
        IF \A i \in 1..Len(fn_in) : fn_in[i] = EmptyManifest
        THEN fn_out = BundledDefault
        ELSE fn_out = combined_manifest(fn_in).doc

=============================================================================
